---- MODULE Spec2Model ----
(***************************************************************************)
(* A state-machine model of the AWS adapters of pip-services3-aws-node:    *)
(*   - LambdaFunction  (container/LambdaFunction.js): the dispatcher that  *)
(*     a hosting runtime calls per event (handler / run / execute /        *)
(*     registerAction / getHandler / act);                                 *)
(*   - LambdaClient    (clients/LambdaClient.ts): open / close / invoke /  *)
(*     call / callOneWay;                                                  *)
(*   - CloudWatchLogger (log/CloudWatchLogger.js): open / close / save,    *)
(*     with the dump of its cache;                                         *)
(*   - CloudWatchCounters (count/CloudWatchCounters.js): open / close /    *)
(*     save / getCounterData;                                              *)
(*   - CommandableLambdaFunction (container/CommandableLambdaFunction.js): *)
(*     register / registerCommandSet and the actions they make.            *)
(* Every asynchronous completion (Container.open, a registered action, the *)
(* connection resolver, the remote lambda.invoke) is its own step, so that *)
(* invocations overlap, and open/close interleave with a call in flight,   *)
(* exactly as callbacks may in node.                                       *)
(***************************************************************************)
EXTENDS Integers, Sequences, FiniteSets, TLC

VARIABLES
    \* ---- LambdaFunction -------------------------------------------------
    actions,          \* this._actions : command -> registered wrapper (actionCurl)
    containerOpened,  \* what Container.isOpen() answers
    runCount,         \* how many times run() went as far as calling open()
    hooks,            \* process.on('uncaughtException') listeners installed
    registerThrew,    \* whether the last registerAction threw
    inv,              \* the invocations of the entry point, by id
    \* ---- CommandableLambdaFunction --------------------------------------
    registered,       \* whether register() has run
    commandSet,       \* the names of the commands of the controller's command set
    cmdRuns,          \* the calls of the actions register() made, by id
    \* ---- LambdaClient ---------------------------------------------------
    opened,           \* this._opened
    connection,       \* this._connection
    lambda,           \* this._lambda: 0, or the number of the open() that constructed it
    opens,            \* how many open() calls went on to resolve a connection
    opening,          \* those of them whose resolution is still in flight
    lastOp,           \* the open()/close() step taken last, and what open reported
    call,             \* the invoke() call made last: its arguments and what came of it
    config,           \* the configuration the client's connection resolver holds
    \* ---- CloudWatchLogger -----------------------------------------------
    timer,            \* this._timer
    intervals,        \* the interval timers setInterval started and nothing cleared
    client,           \* this._client
    lastToken,        \* this._lastToken
    cache,            \* this._cache.length
    logConnection,    \* this._connection
    logOpen,          \* the open() followed: where it is and what it met
    logSave,          \* the save() followed: its arguments and what came of it
    logOverlap,       \* a save() started while the one followed was in flight
    logClose,         \* the close() made last
    \* ---- CloudWatchCounters ---------------------------------------------
    cntOpened,        \* this._opened
    cntClient,        \* this._client
    cntConnection,    \* this._connection
    cntResolving,     \* open() calls whose resolution is in flight
    cntClosed,        \* whether close() has been called, and open() not since
    cntSave           \* the save() made last

cmdVars    == <<registered, commandSet, cmdRuns>>
fnVars     == <<actions, containerOpened, runCount, hooks, registerThrew, inv, cmdVars>>
clientVars == <<opened, connection, lambda, opens, opening, lastOp, call, config>>
logVars    == <<timer, intervals, client, lastToken, cache, logConnection, logOpen, logSave, logOverlap,
                 logClose>>
cntVars    == <<cntOpened, cntClient, cntConnection, cntResolving, cntClosed, cntSave>>
vars       == <<fnVars, clientVars, logVars, cntVars>>

----------------------------------------------------------------------------
(* Values of the JavaScript side. *)

Null      == "null"        \* JavaScript null
Undefined == "undefined"   \* JavaScript undefined (an absent field)

\* x == null in JavaScript: true of null and of undefined, of nothing else.
IsNullish(x) == x \in {Null, Undefined}

\* x || y in JavaScript for the string-or-null values used here.
OrElse(x, y) == IF IsNullish(x) \/ x = "" THEN y ELSE x

----------------------------------------------------------------------------
(* Bounds of the model. *)

MaxInvocations == 2    \* invocations of the LambdaFunction entry point
MaxOpens       == 2    \* open() calls that go on to resolve a connection
MaxMessages    == 1    \* messages the logger's cache holds

InvIds  == 1..MaxInvocations

----------------------------------------------------------------------------
(***************************************************************************)
(* LambdaFunction                                                          *)
(***************************************************************************)

\* Commands an event may carry: absent, null, empty, two ordinary names and a
\* name that every plain object inherits from Object.prototype.
EventCmds == {Undefined, Null, "", "a", "b", "toString"}

\* The keys registerAction is called with here ('' is the empty command).
RegisterCmds == {"", "a", "b"}
ActionKeys   == RegisterCmds \ {""}

\* The action argument of registerAction: missing, not a function, or one of
\* two distinguishable handler functions.
Handlers       == {"f1", "f2"}
RegisterValues == {Null, "notAFunction"} \cup Handlers

\* The action registerCommandSet registers for the command of a name: an
\* arrow function that executes that command.
CommandAction(name) == "execute:" \o name
CommandActions == {CommandAction(name) : name \in ActionKeys}

\* The values _.isFunction is true of.
Functions == Handlers \cup CommandActions
Schemas        == {Null, "schema"}

\* Properties a plain {} object inherits: this._actions = {} answers
\* this._actions["toString"] with Object.prototype.toString.
ObjectPrototypeKeys == {"toString"}
Inherited == "Object.prototype.toString"

\* A callback's err argument that says "no error" (null).
NoError == [type |-> Null, code |-> Null, details |-> Null]
BadRequest(code, details) == [type |-> "BadRequestException", code |-> code, details |-> details]
OpenError       == [type |-> "OpenError", code |-> "OPEN_FAILED", details |-> Null]
ValidationError == [type |-> "ValidationException", code |-> "INVALID_DATA", details |-> Null]
ActionError     == [type |-> "ActionError", code |-> "ACTION_FAILED", details |-> Null]

\* What a registered handler may hand to its callback.
Outcomes == { [err |-> NoError, result |-> "result"],
              [err |-> ActionError, result |-> Null] }

Done(err, result) == [err |-> err, result |-> result]

\* An invocation that has not arrived yet.
IdleInvocation ==
    [ st      |-> "idle",      \* idle, opening, running, done, lost, thrown
      cmd     |-> Undefined,   \* event.cmd
      valid   |-> TRUE,        \* what a schema said of the event (TRUE until one is asked)
      atOpen  |-> FALSE,       \* isOpen() as handler read it
      ran     |-> FALSE,       \* whether handler called run()
      openRes |-> "none",      \* what became of the open() run() called: none, pending, ok, err
      executed |-> FALSE,      \* whether execute(event, context) was entered
      curl    |-> <<>>,        \* wrappers (this._actions entries) invoked: <<key, event id>>
      called  |-> <<>>,        \* registered handlers invoked: <<handler, event id>>
      produced |-> <<>>,       \* what those handlers passed to their callback, in order
      done    |-> <<>> ]       \* context.done(err, result) calls, in order

\* An entry of this._actions: the wrapper's schema and handler; NoAction is
\* what a key never assigned answers (undefined).
NoAction      == [schema |-> Null, action |-> Undefined]
InheritedProp == [schema |-> Null, action |-> Inherited]

\* this._actions[cmd]
GetAction(acts, cmd) ==
    IF cmd \in DOMAIN acts /\ acts[cmd] # NoAction THEN acts[cmd]
    ELSE IF cmd \in ObjectPrototypeKeys THEN InheritedProp
    ELSE NoAction

\* ActionCurl as it would be without the validation: the handler is called
\* whatever the schema says of the event.
ActionCurlWithoutValidation(e, k, i, r, valid) ==
    [r EXCEPT !.curl = Append(@, <<k, i>>),
              !.valid = IF e.schema # Null THEN valid ELSE @,
              !.st = "running", !.called = Append(@, <<e.action, i>>)]

\* actionCurl(params, callback) of registerAction, for the entry e registered
\* under key k, called for invocation i whose record is r: validate when a
\* schema was given, then call the handler (which answers in a later step).
ActionCurl(e, k, i, r, valid) ==
    LET r1 == [r EXCEPT !.curl = Append(@, <<k, i>>),
                        !.valid = IF e.schema # Null THEN valid ELSE @] IN
    IF e.schema # Null /\ ~valid
    THEN [r1 EXCEPT !.st = "done", !.done = Append(@, Done(ValidationError, Null))]
    ELSE [r1 EXCEPT !.st = "running", !.called = Append(@, <<e.action, i>>)]

\* ActionCallback as a wrapper that forwards the error alone would be.
ActionCallbackDropsResult(o) == Done(o.err, Null)

\* The callback execute hands to the wrapper, and the wrapper to the handler,
\* is context.done itself: what the handler passes is what done receives.
ActionCallback(o) == Done(o.err, o.result)

\* Execute as it would be with cmd === null for the missing-command test: an
\* absent cmd (undefined) goes on to the table lookup.
ExecuteStrictNull(acts, i, r, valid) ==
    LET e == [r EXCEPT !.executed = TRUE] IN
    IF e.cmd = Null
    THEN [e EXCEPT !.st = "done",
                   !.done = Append(@, Done(BadRequest("NO_COMMAND", Null), Null))]
    ELSE LET action == GetAction(acts, e.cmd) IN
         IF IsNullish(action.action)
         THEN [e EXCEPT !.st = "done",
                        !.done = Append(@, Done(BadRequest("NO_ACTION", e.cmd), Null))]
         ELSE IF action = InheritedProp
         THEN [e EXCEPT !.st = "lost"]
         ELSE ActionCurl(action, e.cmd, i, e, valid)

\* execute(event, context) for invocation i whose record is r; valid is what
\* schema.validateAndReturnException will say of the event, if asked.
Execute(acts, i, r, valid) ==
    LET e == [r EXCEPT !.executed = TRUE] IN
    IF IsNullish(e.cmd)
    THEN [e EXCEPT !.st = "done",
                   !.done = Append(@, Done(BadRequest("NO_COMMAND", Null), Null))]
    ELSE LET action == GetAction(acts, e.cmd) IN
         IF IsNullish(action.action)
         THEN [e EXCEPT !.st = "done",
                        !.done = Append(@, Done(BadRequest("NO_ACTION", e.cmd), Null))]
         ELSE IF action = InheritedProp
         \* Object.prototype.toString(event, done) returns a string and never
         \* calls done.
         THEN [e EXCEPT !.st = "lost"]
         ELSE ActionCurl(action, e.cmd, i, e, valid)

\* RunCallback as it would be if it went on to execute whatever open() said.
RunCallbackIgnoresError(acts, i, r, err, valid) ==
    Execute(acts, i, [r EXCEPT !.openRes = IF err # NoError THEN "err" ELSE "ok"], valid)

\* The callback handler gives to run(): (err) => err ? done(err, null) : execute().
RunCallback(acts, i, r, err, valid) ==
    IF err # NoError
    THEN [r EXCEPT !.st = "done", !.openRes = "err", !.done = Append(@, Done(err, Null))]
    ELSE Execute(acts, i, [r EXCEPT !.openRes = "ok"], valid)

\* RegisterAction as it would be without the _.isFunction(action) test.
RegisterActionOfAnyValue(acts, cmd, schema, action) ==
    IF cmd = "" THEN [threw |-> TRUE, actions |-> acts]
    ELSE IF IsNullish(action) THEN [threw |-> TRUE, actions |-> acts]
    ELSE [threw |-> FALSE,
          actions |-> [acts EXCEPT ![cmd] = [schema |-> schema, action |-> action]]]

\* registerAction(cmd, schema, action): whether it throws, and the table after.
RegisterAction(acts, cmd, schema, action) ==
    IF cmd = "" THEN [threw |-> TRUE, actions |-> acts]
    ELSE IF IsNullish(action) THEN [threw |-> TRUE, actions |-> acts]
    ELSE IF action \notin Functions THEN [threw |-> TRUE, actions |-> acts]
    ELSE [threw |-> FALSE,
          actions |-> [acts EXCEPT ![cmd] = [schema |-> schema, action |-> action]]]

\* The next free invocation id (invocations are numbered as they arrive).
Arrives(i) == inv[i].st = "idle" /\ \A j \in InvIds : j < i => inv[j].st # "idle"

\* registerAction, called by the subclass's register(), which setReferences
\* runs while the container is being configured: before any event is dispatched.
Register(cmd, schema, action) ==
    /\ \A i \in InvIds : inv[i].st = "idle"
    /\ LET t == RegisterAction(actions, cmd, schema, action) IN
         registerThrew' = t.threw /\ actions' = t.actions
    /\ UNCHANGED <<containerOpened, runCount, hooks, inv, cmdVars,
                 clientVars, logVars, cntVars>>

\* handler(event, context) through getHandler()/act(), container open:
\* execute at once.
HandlerExecute(i, cmd, valid) ==
    /\ Arrives(i)
    /\ containerOpened
    /\ inv' = [inv EXCEPT ![i] =
                 Execute(actions, i, [@ EXCEPT !.cmd = cmd, !.atOpen = containerOpened], valid)]
    /\ UNCHANGED <<actions, containerOpened, runCount, hooks, registerThrew, cmdVars,
                 clientVars, logVars, cntVars>>

\* handler, container not open: run() reads the configuration, installs the
\* process hooks and calls open(), whose completion is a later step.  The
\* Container base class is not part of this repository: whether isOpen()
\* already answers true while open() is in progress is left open (early).
HandlerRun(i, cmd, early) ==
    /\ Arrives(i)
    /\ ~containerOpened
    /\ inv' = [inv EXCEPT ![i] = [@ EXCEPT !.cmd = cmd, !.atOpen = FALSE,
                                           !.ran = TRUE, !.st = "opening",
                                           !.openRes = "pending"]]
    /\ runCount' = runCount + 1
    /\ hooks' = hooks + 1
    /\ containerOpened' = early
    /\ UNCHANGED <<actions, registerThrew, cmdVars,
                 clientVars, logVars, cntVars>>

\* handler, container not open, and readConfigFromFile (a synchronous call
\* with no callback) throws: nothing in run(), handler() or the function
\* getHandler() returns catches it.
HandlerRunThrows(i) ==
    /\ Arrives(i)
    /\ ~containerOpened
    /\ inv' = [inv EXCEPT ![i] = [@ EXCEPT !.atOpen = FALSE, !.ran = TRUE, !.st = "thrown"]]
    /\ UNCHANGED <<actions, containerOpened, runCount, hooks, registerThrew, cmdVars,
                 clientVars, logVars, cntVars>>

\* Container.open() calls back: with an error, or with none.
OpenCompletes(i, err, valid) ==
    /\ inv[i].st = "opening"
    /\ inv' = [inv EXCEPT ![i] = RunCallback(actions, i, @, err, valid)]
    /\ containerOpened' = IF err = NoError THEN TRUE ELSE containerOpened
    /\ UNCHANGED <<actions, runCount, hooks, registerThrew, cmdVars,
                 clientVars, logVars, cntVars>>

\* A registered handler calls its callback with outcome o.
ActionCompletes(i, o) ==
    /\ inv[i].st = "running"
    /\ inv' = [inv EXCEPT ![i] = [@ EXCEPT !.st = "done", !.produced = Append(@, o),
                                           !.done = Append(@, ActionCallback(o))]]
    /\ UNCHANGED <<actions, containerOpened, runCount, hooks, registerThrew, cmdVars,
                 clientVars, logVars, cntVars>>

----------------------------------------------------------------------------
(***************************************************************************)
(* LambdaClient                                                            *)
(***************************************************************************)

\* The command, correlation id and args a caller may pass.
CallCmds       == {Null, "", "ping"}
CorrelationIds == {Null, "123"}
\* What IdGenerator.nextShort() may return.
GeneratedIds   == {"id-x"}

\* JavaScript objects are functions from field names to values.
EmptyObject == [f \in {} |-> Null]
CallArgs    == { EmptyObject, [id |-> "1", cmd |-> "old"] }

\* obj[k] = v on a JavaScript object.
Put(obj, k, v) == [f \in DOMAIN obj \cup {k} |-> IF f = k THEN v ELSE obj[f]]

\* _.clone(args): a new object with the same fields.
Clone(obj) == [f \in DOMAIN obj |-> obj[f]]

\* JSON.stringify(obj): a string, told apart from the object it encodes.
Stringify(obj) == [kind |-> "string", json |-> obj]

\* What this._connection may hold: never assigned, the null the resolver
\* passes with an error, or resolved parameters.
NoConnection   == [kind |-> Undefined, arn |-> Undefined]
NullConnection == [kind |-> Null, arn |-> Undefined]
Connections    == { [kind |-> "AwsConnectionParams", arn |-> "arn:aws:lambda:us-east-1:1:function:f"],
                    [kind |-> "AwsConnectionParams", arn |-> "arn:aws:lambda:eu-west-1:2:function:g"] }

\* AwsConnectionParams.getArn()
GetArn(conn) == conn.arn

TransportError == [type |-> "AWSError", code |-> "NetworkingError", cause |-> Null]
ParseError     == [type |-> "SyntaxError", code |-> "JSON", cause |-> Null]
NoClientError  == [type |-> Null, code |-> Null, cause |-> Null]
ClientError(type, code, cause) == [type |-> type, code |-> code, cause |-> cause]

\* Payloads the remote call may answer with, and results given to callbacks.
JsonText    == [kind |-> "string", text |-> "{\"ok\":1}"]
BadText     == [kind |-> "string", text |-> "not json"]
BinaryData  == [kind |-> "object", text |-> "<bytes>"]
ParsedJson  == [kind |-> "object", text |-> "ok:1"]
NullResult  == [kind |-> Null, text |-> Null]

\* What lambda.invoke may pass to its callback: (err, null) or (null, data).
Responses == { [err |-> TransportError, Payload |-> NullResult],
               [err |-> NoClientError, Payload |-> JsonText],
               [err |-> NoClientError, Payload |-> BadText],
               [err |-> NoClientError, Payload |-> BinaryData] }

\* _.isString(x)
IsString(x) == x.kind = "string"

\* JSON.parse(x): the value, or the exception it throws.
JsonParse(x) ==
    IF x = JsonText THEN [threw |-> FALSE, value |-> ParsedJson, ex |-> NoClientError]
    ELSE [threw |-> TRUE, value |-> NullResult, ex |-> ParseError]

\* A call that has not been made yet.
IdleCall ==
    [ st        |-> "idle",        \* idle, pending, done, thrown
      via       |-> Undefined,     \* call or callOneWay
      cmd       |-> Null,
      correlationId |-> Null,
      args      |-> EmptyObject,   \* the caller's args object
      hasCallback |-> FALSE,
      wasOpen   |-> FALSE,         \* isOpen() when the call was made
      held      |-> NoConnection,  \* this._connection when the call was made
      generated |-> Null,          \* the id IdGenerator.nextShort() returned, if asked
      argsAfter |-> EmptyObject,   \* the caller's args object once invoke has returned
      requests  |-> <<>>,          \* the params of every lambda.invoke it issued
      response  |-> [err |-> NoClientError, Payload |-> NullResult],
      callbacks |-> <<>>,          \* callback(err, result) calls, in order
      logged    |-> <<>> ]         \* errors given to this._logger.error, in order

\* InvokeArgs as it would be without the "|| IdGenerator.nextShort()".
InvokeArgsWithoutGeneratedId(args, cmd, correlationId, generated) ==
    Put(Put(Clone(args), "cmd", cmd), "correlation_id", correlationId)

\* The args invoke sends: a clone of the caller's, plus cmd and correlation_id.
InvokeArgs(args, cmd, correlationId, generated) ==
    Put(Put(Clone(args), "cmd", cmd), "correlation_id", OrElse(correlationId, generated))

\* CallerArgs as it would be without "args = _.clone(args)": cmd and
\* correlation_id are assigned to the caller's own object.
CallerArgsWithoutClone(args, cmd, correlationId, generated) ==
    Put(Put(args, "cmd", cmd), "correlation_id", OrElse(correlationId, generated))

\* The caller's args object once invoke has assigned cmd and correlation_id:
\* the assignments go to the clone the local name args was rebound to, so the
\* caller's object is as it was.
CallerArgs(args, cmd, correlationId, generated) == args

\* The params invoke passes to lambda.invoke.
InvokeParams(conn, invocationType, args) ==
    [ FunctionName   |-> GetArn(conn),
      InvocationType |-> invocationType,
      LogType        |-> "None",
      Payload        |-> Stringify(args) ]

\* invoke with cmd == null: what is reported, to the callback or to the logger.
MissingCommand == ClientError("UnknownException", "NO_COMMAND", Null)

\* The test invoke makes of its cmd before anything else.
IsMissingCommand(cmd) == IsNullish(cmd)

\* CallFailed as it would be without .withCause(err): no error is its cause.
CallFailedWithoutCause(err) ==
    ClientError("InvocationException", "CALL_FAILED", NoClientError)

\* new InvocationException(correlationId, 'CALL_FAILED', ...).withCause(err)
CallFailed(err) == ClientError("InvocationException", "CALL_FAILED", err)

\* The callback invoke gives to lambda.invoke, for a call made with or without
\* a callback of its own: the callback(err, result) calls it makes, in order,
\* and the errors it logs.
OnResponse(hasCallback, resp) ==
    IF ~hasCallback
    THEN [ callbacks |-> <<>>,
           logged    |-> IF resp.err # NoClientError THEN << resp.err >> ELSE <<>> ]
    ELSE IF resp.err # NoClientError
    THEN [ callbacks |-> << Done(CallFailed(resp.err), NullResult) >>,
           logged    |-> <<>> ]
    ELSE LET result == resp.Payload
             parsed == JsonParse(result) IN
         IF IsString(result)
         THEN IF parsed.threw
              \* the catch block calls back with the error, and control then
              \* falls through to callback(null, result) with result unassigned
              THEN [ callbacks |-> << Done(ClientError("InvocationException",
                                                       "DESERIALIZATION_FAILED", parsed.ex),
                                           NullResult),
                                      Done(NoClientError, result) >>,
                     logged    |-> <<>> ]
              ELSE [ callbacks |-> << Done(NoClientError, parsed.value) >>, logged |-> <<>> ]
         ELSE [ callbacks |-> << Done(NoClientError, result) >>, logged |-> <<>> ]

\* invoke(invocationType, cmd, correlationId, args, callback), reached through
\* the entry point via; generated is what IdGenerator.nextShort() returns if
\* asked.  invoke keeps nothing between calls, so one call is followed at a
\* time: the next is made once the last has been answered.
Invoke(via, invocationType, cmd, correlationId, args, hasCallback, generated) ==
    /\ call.st # "pending"
    /\ LET c == [IdleCall EXCEPT !.via = via, !.cmd = cmd, !.correlationId = correlationId,
                                 !.args = args, !.hasCallback = hasCallback,
                                 !.wasOpen = opened, !.held = connection]
           \* past the cmd test, args is cloned and the clone is assigned to
           d == [c EXCEPT !.argsAfter = CallerArgs(args, cmd, correlationId, generated)]
       IN
       IF IsMissingCommand(cmd)
       THEN call' = [c EXCEPT !.st = "done", !.argsAfter = args,
                              !.callbacks = IF hasCallback
                                            THEN << Done(MissingCommand, NullResult) >>
                                            ELSE <<>>,
                              !.logged = IF hasCallback THEN <<>> ELSE << MissingCommand >>]
       ELSE IF IsNullish(connection.kind)
       \* this._connection.getArn() on undefined or null: a TypeError
       THEN call' = [d EXCEPT !.st = "thrown"]
       ELSE call' = [d EXCEPT !.st = "pending",
                              !.generated = IF OrElse(correlationId, generated) = generated
                                            THEN generated ELSE Null,
                              !.requests = << InvokeParams(connection, invocationType,
                                                InvokeArgs(args, cmd, correlationId, generated)) >>]
    /\ UNCHANGED <<opened, connection, lambda, opens, opening, lastOp, config, fnVars, logVars, cntVars>>

\* call(cmd, correlationId, params, callback)
Call(cmd, correlationId, args, hasCallback, generated) ==
    Invoke("call", "RequestResponse", cmd, correlationId, args, hasCallback, generated)

\* CallOneWay as it would be if it asked for a synchronous invocation.
CallOneWayAsRequestResponse(cmd, correlationId, args, hasCallback, generated) ==
    Invoke("callOneWay", "RequestResponse", cmd, correlationId, args, hasCallback, generated)

\* callOneWay(cmd, correlationId, params, callback)
CallOneWay(cmd, correlationId, args, hasCallback, generated) ==
    Invoke("callOneWay", "Event", cmd, correlationId, args, hasCallback, generated)

\* The remote lambda.invoke answers the call in flight.
Responds(resp) ==
    /\ call.st = "pending"
    /\ LET out == OnResponse(call.hasCallback, resp) IN
         call' = [call EXCEPT !.st = "done", !.response = resp,
                              !.callbacks = @ \o out.callbacks,
                              !.logged = @ \o out.logged]
    /\ UNCHANGED <<opened, connection, lambda, opens, opening, lastOp, config, fnVars, logVars, cntVars>>

\* The error the connection resolver reports when it cannot give a connection.
ResolveError == ClientError("ConfigException", "NO_CONNECTION", Null)

\* Configurations of the resolver: nothing, a full ARN with credentials, and
\* the parts of an ARN with credentials.
NoConfig ==
    [ arn |-> Null, region |-> Null, account |-> Null, resourceType |-> Null,
      resource |-> Null, accessId |-> Null, accessKey |-> Null ]
ArnConfig ==
    [NoConfig EXCEPT !.arn = "arn:aws:lambda:us-east-1:1:function:f",
                     !.accessId = "A", !.accessKey = "B"]
TupleConfig ==
    [NoConfig EXCEPT !.region = "eu-west-1", !.account = "2", !.resourceType = "function",
                     !.resource = "g", !.accessId = "A", !.accessKey = "B"]
Configs == {NoConfig, ArnConfig, TupleConfig}

\* Whether an ARN can be built from the parts of a configuration.
CanSynthesize(c) ==
    c.region # Null /\ c.account # Null /\ c.resourceType # Null /\ c.resource # Null

\* The ARN of a configuration: the one supplied, else the one built from
\* its parts, else none.
ArnOf(c) ==
    IF c.arn # Null THEN c.arn
    ELSE IF CanSynthesize(c)
    THEN "arn:aws:lambda:" \o c.region \o ":" \o c.account \o ":" \o c.resourceType
             \o ":" \o c.resource
    ELSE Null

\* resolve(traceId) of the connection resolver for a configuration: an
\* error when no ARN can be determined or the credentials are absent, else
\* the connection parameters.
Resolve(c) ==
    IF ArnOf(c) = Null \/ c.accessId = Null \/ c.accessKey = Null
    THEN [err |-> ResolveError, connection |-> NullConnection]
    ELSE [err |-> NoClientError,
          connection |-> [kind |-> "AwsConnectionParams", arn |-> ArnOf(c)]]

\* A step of open() or close(): which, and the error given to open's callback
\* by that step (none while it has not been called).
Step(op, err) == [op |-> op, err |-> err]

\* OpenWhenOpen as it would be without the isOpen() test: it resolves again.
OpenWhenOpenResolves ==
    /\ opened
    /\ opens < MaxOpens
    /\ opens' = opens + 1
    /\ opening' = opening \cup {opens + 1}
    /\ lastOp' = Step("openWhenOpen", NoClientError)
    /\ UNCHANGED <<opened, connection, lambda, call, config, fnVars, logVars, cntVars>>

\* open() on an open client: callback() at once.
OpenWhenOpen ==
    /\ opened
    /\ lastOp' = Step("openWhenOpen", NoClientError)
    /\ UNCHANGED <<opened, connection, lambda, opens, opening, call, config, fnVars, logVars, cntVars>>

\* open() on a client that is not open: the first task of the series asks the
\* resolver for a connection.
Open ==
    /\ ~opened
    /\ opens < MaxOpens
    /\ opens' = opens + 1
    /\ opening' = opening \cup {opens + 1}
    /\ lastOp' = Step("open", NoClientError)
    /\ UNCHANGED <<opened, connection, lambda, call, config, fnVars, logVars, cntVars>>

\* ResolveFails as it would be if the series went on to its second task.
ResolveFailsAndGoesOn(n) ==
    /\ n \in opening
    /\ opening' = opening \ {n}
    /\ connection' = NullConnection
    /\ lambda' = n
    /\ opened' = TRUE
    /\ lastOp' = Step("resolveFails", ResolveError)
    /\ UNCHANGED <<opens, call, config, fnVars, logVars, cntVars>>

\* ResolveFails as it would be if the error were not passed on.
ResolveFailsUnreported(n) ==
    /\ n \in opening
    /\ opening' = opening \ {n}
    /\ connection' = NullConnection
    /\ lastOp' = Step("resolveFails", NoClientError)
    /\ UNCHANGED <<opened, lambda, opens, call, config, fnVars, logVars, cntVars>>

\* The resolver calls back for open() number n with an error: the connection
\* it passes (null) is stored and the series ends with the error.
ResolveFails(n) ==
    /\ n \in opening
    /\ opening' = opening \ {n}
    /\ connection' = NullConnection
    /\ lastOp' = Step("resolveFails", ResolveError)
    /\ UNCHANGED <<opened, lambda, opens, call, config, fnVars, logVars, cntVars>>

\* ResolveSucceeds as it would be if the connection were not stored.
ResolveSucceedsKeepsConnection(n, conn) ==
    /\ n \in opening
    /\ opening' = opening \ {n}
    /\ lambda' = n
    /\ opened' = TRUE
    /\ lastOp' = Step("resolveSucceeds", NoClientError)
    /\ UNCHANGED <<connection, opens, call, config, fnVars, logVars, cntVars>>

\* The resolver calls back for open() number n with a connection: it is
\* stored, and the second task constructs the handle and sets the flag.
ResolveSucceeds(n, conn) ==
    /\ n \in opening
    /\ opening' = opening \ {n}
    /\ connection' = conn
    /\ lambda' = n
    /\ opened' = TRUE
    /\ lastOp' = Step("resolveSucceeds", NoClientError)
    /\ UNCHANGED <<opens, call, config, fnVars, logVars, cntVars>>

\* The resolver calls back for open() number n with what the configuration
\* resolves to.
ResolverCallsBack(n) ==
    IF Resolve(config).err # NoClientError
    THEN ResolveFails(n)
    ELSE ResolveSucceeds(n, Resolve(config).connection)

\* configure(config), before open() is called.
Configure(c) ==
    /\ ~opened /\ opening = {}
    /\ config' = c
    /\ UNCHANGED <<opened, connection, lambda, opens, opening, lastOp, call>>
    /\ UNCHANGED <<fnVars, logVars, cntVars>>

\* close(correlationId, callback)
Close ==
    /\ opened' = FALSE
    /\ lastOp' = Step("close", NoClientError)
    /\ UNCHANGED <<connection, lambda, opens, opening, call, config, fnVars, logVars, cntVars>>

----------------------------------------------------------------------------
(***************************************************************************)
(* CloudWatchLogger                                                        *)
(***************************************************************************)

\* Sequence tokens the log service may report.
Tokens == {"t1", "t2"}

\* Errors of the log service and of the logger itself.
AlreadyExists == ClientError("AWSError", "ResourceAlreadyExistsException", Null)
AccessDenied  == ClientError("AWSError", "AccessDeniedException", Null)
PutRejected   == ClientError("AWSError", "InvalidSequenceTokenException", Null)
NotOpened     == ClientError("ConfigException", "NOT_OPENED", Null)

\* What createLogGroup and createLogStream may pass to their callback as err.
CreateErrors == {NoClientError, AlreadyExists, AccessDenied}

\* What describeLogStreams may pass to its callback: (err, null), or
\* (null, data) with data.logStreams empty or led by a stream with a token.
DescribeResponses ==
    { [err |-> TransportError, found |-> FALSE, token |-> Null],
      [err |-> NoClientError, found |-> FALSE, token |-> Null] }
    \cup { [err |-> NoClientError, found |-> TRUE, token |-> t] : t \in Tokens }

\* What putLogEvents may pass to its callback: (err, null), or (null, data)
\* with data.nextSequenceToken.
PutResponses ==
    { [err |-> PutRejected, next |-> Null] }
    \cup { [err |-> NoClientError, next |-> t] : t \in Tokens }

\* isOpen() of the logger.
LoggerIsOpen == timer # Null

\* An open() that has not been called yet.
IdleLogOpen ==
    [ st        |-> "idle",         \* idle, resolve, group, stream, describe, done, failed, thrown
      err       |-> NoClientError,  \* the error given to open's callback
      groupErr  |-> NoClientError,  \* the err createLogGroup answered with
      reachedStream |-> FALSE,      \* whether the series went on to the stream task
      streamErr |-> NoClientError,  \* the err createLogStream answered with
      described |-> "none",         \* describeLogStreams: none, failed, empty, found
      reported  |-> Null,           \* the token it reported for the stream
      startedTimer |-> FALSE ]      \* whether this open() called setInterval

\* A save() that has not been called yet.
IdleLogSave ==
    [ st        |-> "idle",         \* idle, noop, failed, describe, put, written, thrown
      caller    |-> "none",         \* dump or close
      batch     |-> 0,              \* messages.length
      wasOpen   |-> FALSE,          \* isOpen() as save read it
      hadClient |-> FALSE,          \* this._client != null as save read it
      held      |-> Null,           \* this._lastToken when save was called
      sent      |-> Null,           \* params.sequenceToken
      fetched   |-> Null,           \* the token its describeLogStreams reported
      putErr    |-> NoClientError,  \* the err putLogEvents answered with
      next      |-> Null,           \* data.nextSequenceToken of its putLogEvents
      tokenAfter |-> Null,          \* this._lastToken when its putLogEvents callback ended
      requests  |-> <<>>,           \* the remote calls it issued, in order
      callbacks |-> <<>>,           \* the errors given to save's callback, in order
      logged    |-> <<>> ]          \* errors given to this._logger.error

\* A close() that has not been called yet.
IdleLogClose ==
    [ st        |-> "idle",         \* idle, saving, closed
      wasOpen   |-> FALSE,          \* isOpen() when close was called
      timer     |-> Null,           \* this._timer as close's callback left it
      client    |-> Null,           \* this._client as close's callback left it
      callbacks |-> 0 ]             \* calls of close's completion callback

InFlight(sv) == sv.st \in {"describe", "put"}

\* The timers running once the fourth task of open() has run with t in
\* this._timer: setInterval is called only when no handle is held.
SetInterval(t, n) == IF t = Null THEN n + 1 ELSE n

\* The timers running once the callback close() gives to save has run with t
\* in this._timer: the timer whose handle is held is cleared.
ClearInterval(t, n) == IF t # Null THEN n - 1 ELSE n

\* The fourth task of open(): start the flush timer unless one is running.
StartTimer(o) ==
    [o EXCEPT !.st = "done", !.startedTimer = (timer = Null)]

\* CreateLogGroupCallback as it would be if every error aborted open.
CreateLogGroupCallbackStrict(o, err) ==
    LET o1 == [o EXCEPT !.groupErr = err] IN
    IF err # NoClientError
    THEN [o1 EXCEPT !.st = "failed", !.err = err]
    ELSE IF client = Null THEN [o1 EXCEPT !.st = "thrown", !.reachedStream = TRUE]
    ELSE [o1 EXCEPT !.st = "stream", !.reachedStream = TRUE]

\* The callback open() gives to createLogGroup: an error other than "already
\* exists" ends the series; otherwise the series goes on to the stream task,
\* which calls this._client.createLogStream (a TypeError if close() has set
\* this._client to null meanwhile).
CreateLogGroupCallback(o, err) ==
    LET o1 == [o EXCEPT !.groupErr = err] IN
    IF err # NoClientError /\ err.code # "ResourceAlreadyExistsException"
    THEN [o1 EXCEPT !.st = "failed", !.err = err]
    ELSE IF client = Null THEN [o1 EXCEPT !.st = "thrown", !.reachedStream = TRUE]
    ELSE [o1 EXCEPT !.st = "stream", !.reachedStream = TRUE]

\* RecoveredToken as it would be if the held token were kept.
RecoveredTokenKept(held, resp) == held

\* this._lastToken after a describeLogStreams callback: the token of the first
\* stream reported, if any is.
RecoveredToken(held, resp) == IF resp.found THEN resp.token ELSE held

\* params.sequenceToken of save(): params is built from this._lastToken before
\* the series that calls describeLogStreams is started.
SaveParamsToken(held, fetched) == held

\* save(messages, callback) up to its first remote call, for a batch of n
\* messages: nothing to do, no client, or the series is started.
StartSave(caller, n) ==
    LET sv == [IdleLogSave EXCEPT !.caller = caller, !.batch = n,
                                  !.wasOpen = LoggerIsOpen, !.hadClient = (client # Null),
                                  !.held = lastToken] IN
    IF ~LoggerIsOpen \/ n = 0
    THEN [sv EXCEPT !.st = "noop", !.callbacks = << NoClientError >>]
    ELSE IF client = Null
    THEN [sv EXCEPT !.st = "failed", !.callbacks = << NotOpened >>]
    ELSE [sv EXCEPT !.st = "describe", !.requests = << "describeLogStreams" >>]

\* No save() beside the one followed.
NoOverlap == [st |-> "none", caller |-> "none"]

\* Where a save() that has just been called is kept: it is the one followed
\* unless that one is still in flight, and beside it if both are.  Two
\* series are followed at a time.
Follow(sv) ==
    IF ~InFlight(logSave)
    THEN logSave' = sv /\ UNCHANGED logOverlap
    ELSE IF ~InFlight(sv)
    THEN UNCHANGED <<logSave, logOverlap>>
    ELSE /\ logOverlap.st = "none"
         /\ logOverlap' = [st |-> sv.st, caller |-> sv.caller]
         /\ UNCHANGED logSave

\* open() on an open logger: callback(null) at once.
LoggerOpenWhenOpen ==
    /\ LoggerIsOpen
    /\ UNCHANGED vars

\* open() on a logger that is not open: the first task asks the resolver for
\* a connection.  One open() is followed at a time.
LoggerOpen ==
    /\ ~LoggerIsOpen
    /\ logOpen.st \notin {"resolve", "group", "stream", "describe"}
    /\ logOpen' = [IdleLogOpen EXCEPT !.st = "resolve"]
    /\ logClose' = IF logClose.st = "closed" THEN IdleLogClose ELSE logClose
    /\ UNCHANGED <<timer, intervals, client, lastToken, cache, logConnection, logSave, logOverlap>>
    /\ UNCHANGED <<fnVars, clientVars, cntVars>>

\* The resolver calls back with an error: the series ends with it.
LoggerResolveFails ==
    /\ logOpen.st = "resolve"
    /\ logConnection' = NullConnection
    /\ logOpen' = [logOpen EXCEPT !.st = "failed", !.err = ResolveError]
    /\ UNCHANGED <<timer, intervals, client, lastToken, cache, logSave, logClose, logOverlap>>
    /\ UNCHANGED <<fnVars, clientVars, cntVars>>

\* The resolver calls back with a connection: the second task constructs the
\* client and calls createLogGroup.
LoggerResolveSucceeds(conn) ==
    /\ logOpen.st = "resolve"
    /\ logConnection' = conn
    /\ client' = "CloudWatchLogs"
    /\ logOpen' = [logOpen EXCEPT !.st = "group"]
    /\ UNCHANGED <<timer, intervals, lastToken, cache, logSave, logClose, logOverlap>>
    /\ UNCHANGED <<fnVars, clientVars, cntVars>>

\* createLogGroup answers.
CreateLogGroupResponds(err) ==
    /\ logOpen.st = "group"
    /\ logOpen' = CreateLogGroupCallback(logOpen, err)
    /\ UNCHANGED <<timer, intervals, client, lastToken, cache, logConnection, logSave, logClose, logOverlap>>
    /\ UNCHANGED <<fnVars, clientVars, cntVars>>

\* createLogStream answers: created (the held token is reset and the timer
\* task runs), exists already (describeLogStreams is called), or failed.
CreateLogStreamResponds(err) ==
    /\ logOpen.st = "stream"
    /\ LET o == [logOpen EXCEPT !.streamErr = err] IN
       IF err = NoClientError
       THEN /\ lastToken' = Null
            /\ logOpen' = StartTimer(o)
            /\ timer' = IF timer = Null THEN "interval" ELSE timer
            /\ intervals' = SetInterval(timer, intervals)
       ELSE IF err.code = "ResourceAlreadyExistsException"
       THEN /\ logOpen' = [o EXCEPT !.st = IF client = Null THEN "thrown" ELSE "describe"]
            /\ UNCHANGED <<timer, intervals, lastToken>>
       ELSE /\ logOpen' = [o EXCEPT !.st = "failed", !.err = err]
            /\ UNCHANGED <<timer, intervals, lastToken>>
    /\ UNCHANGED <<client, cache, logConnection, logSave, logClose, logOverlap>>
    /\ UNCHANGED <<fnVars, clientVars, cntVars>>

\* describeLogStreams, called by open(), answers: with (err, null) the
\* callback fails on data.logStreams; otherwise the token is recovered and the
\* timer task runs.
OpenDescribeResponds(resp) ==
    /\ logOpen.st = "describe"
    /\ IF resp.err # NoClientError
       THEN /\ logOpen' = [logOpen EXCEPT !.st = "thrown", !.described = "failed"]
            /\ UNCHANGED <<timer, intervals, lastToken>>
       ELSE /\ lastToken' = RecoveredToken(lastToken, resp)
            /\ logOpen' = StartTimer(
                 [logOpen EXCEPT !.described = IF resp.found THEN "found" ELSE "empty",
                                 !.reported = resp.token])
            /\ timer' = IF timer = Null THEN "interval" ELSE timer
            /\ intervals' = SetInterval(timer, intervals)
    /\ UNCHANGED <<client, cache, logConnection, logSave, logClose, logOverlap>>
    /\ UNCHANGED <<fnVars, clientVars, cntVars>>

\* write(level, correlationId, ex, message): CachedLogger adds to the cache.
LoggerWrite ==
    /\ cache < MaxMessages
    /\ cache' = cache + 1
    /\ UNCHANGED <<timer, intervals, client, lastToken, logConnection, logOpen, logSave, logClose, logOverlap>>
    /\ UNCHANGED <<fnVars, clientVars, cntVars>>

\* dump(), on a tick of the timer or from CachedLogger.update: the cache is
\* emptied and handed to save(), whose callback puts the messages back when
\* it is given an error.  Nothing keeps a tick from starting a save() while
\* an earlier one is in flight.
LoggerDump ==
    /\ LET sv == StartSave("dump", cache) IN
         /\ Follow(sv)
         /\ cache' = IF sv.st = "failed" THEN cache ELSE 0
    /\ UNCHANGED <<timer, intervals, client, lastToken, logConnection, logOpen, logClose>>
    /\ UNCHANGED <<fnVars, clientVars, cntVars>>

\* close(correlationId, callback): save(this._cache, cb), where cb stops the
\* timer, empties the cache, drops the client and calls callback(null).
LoggerClose ==
    /\ LET sv == StartSave("close", cache) IN
         IF Len(sv.callbacks) > 0
         THEN /\ timer' = Null
              /\ intervals' = ClearInterval(timer, intervals)
              /\ cache' = 0
              /\ client' = Null
              /\ logClose' = [IdleLogClose EXCEPT !.st = "closed", !.wasOpen = LoggerIsOpen,
                                                  !.callbacks = 1]
              /\ Follow(sv)
         ELSE /\ Follow(sv)
              /\ logClose' = [IdleLogClose EXCEPT !.st = "saving", !.wasOpen = LoggerIsOpen,
                                                  !.timer = timer, !.client = client]
              /\ UNCHANGED <<timer, intervals, cache, client>>
    /\ UNCHANGED <<lastToken, logConnection, logOpen>>
    /\ UNCHANGED <<fnVars, clientVars, cntVars>>

\* describeLogStreams, called by save(), answers: with (err, null) the
\* callback fails on data.logStreams; otherwise the held token is replaced
\* and the second task calls putLogEvents with the params built before.
SaveDescribeResponds(resp) ==
    /\ logSave.st = "describe"
    /\ IF resp.err # NoClientError
       THEN /\ logSave' = [logSave EXCEPT !.st = "thrown"]
            /\ UNCHANGED lastToken
       ELSE /\ lastToken' = RecoveredToken(lastToken, resp)
            /\ logSave' =
                 IF client = Null
                 THEN [logSave EXCEPT !.st = "thrown", !.fetched = resp.token]
                 ELSE [logSave EXCEPT !.st = "put", !.fetched = resp.token,
                                      !.sent = SaveParamsToken(logSave.held, resp.token),
                                      !.requests = Append(@, "putLogEvents")]
    /\ UNCHANGED <<timer, intervals, client, cache, logConnection, logOpen, logClose, logOverlap>>
    /\ UNCHANGED <<fnVars, clientVars, cntVars>>

\* PutLogEventsFailed as it would be if the error were not logged.
PutLogEventsFailedSilently(logged, err) == logged

\* The error branch of the callback save() gives to putLogEvents:
\* this._logger.error(...) is given the error, and nothing else is done
\* with it.
PutLogEventsFailed(logged, err) == Append(logged, err)

\* putLogEvents answers: an error is logged, a success replaces the held
\* token; the series of save() ends there, and it was given no final callback.
SavePutResponds(resp) ==
    /\ logSave.st = "put"
    /\ lastToken' = IF resp.err # NoClientError THEN lastToken ELSE resp.next
    /\ logSave' = [logSave EXCEPT
                     !.st = "written", !.putErr = resp.err, !.next = resp.next,
                     !.tokenAfter = IF resp.err # NoClientError THEN lastToken ELSE resp.next,
                     !.logged = IF resp.err # NoClientError
                                THEN PutLogEventsFailed(@, resp.err) ELSE @]
    /\ UNCHANGED <<timer, intervals, client, cache, logConnection, logOpen, logClose, logOverlap>>
    /\ UNCHANGED <<fnVars, clientVars, cntVars>>

\* describeLogStreams answers the save() beside the one followed.
OverlapDescribeResponds(resp) ==
    /\ logOverlap.st = "describe"
    /\ IF resp.err # NoClientError
       THEN /\ logOverlap' = NoOverlap
            /\ UNCHANGED lastToken
       ELSE /\ lastToken' = RecoveredToken(lastToken, resp)
            /\ logOverlap' = IF client = Null THEN NoOverlap
                                              ELSE [logOverlap EXCEPT !.st = "put"]
    /\ UNCHANGED <<timer, intervals, client, cache, logConnection, logOpen, logSave, logClose>>
    /\ UNCHANGED <<fnVars, clientVars, cntVars>>

\* putLogEvents answers the save() beside the one followed.
OverlapPutResponds(resp) ==
    /\ logOverlap.st = "put"
    /\ lastToken' = IF resp.err # NoClientError THEN lastToken ELSE resp.next
    /\ logOverlap' = NoOverlap
    /\ UNCHANGED <<timer, intervals, client, cache, logConnection, logOpen, logSave, logClose>>
    /\ UNCHANGED <<fnVars, clientVars, cntVars>>

InitLogger ==
    /\ timer = Null
    /\ intervals = 0
    /\ client = Null
    /\ lastToken = Null
    /\ cache = 0
    /\ logConnection = NoConnection
    /\ logOpen = IdleLogOpen
    /\ logSave = IdleLogSave
    /\ logOverlap = NoOverlap
    /\ logClose = IdleLogClose

NextLogger ==
    \/ LoggerOpenWhenOpen
    \/ LoggerOpen
    \/ LoggerResolveFails
    \/ \E conn \in Connections : LoggerResolveSucceeds(conn)
    \/ \E err \in CreateErrors : CreateLogGroupResponds(err)
    \/ \E err \in CreateErrors : CreateLogStreamResponds(err)
    \/ \E resp \in DescribeResponses : OpenDescribeResponds(resp)
    \/ LoggerWrite
    \/ LoggerDump
    \/ LoggerClose
    \/ \E resp \in DescribeResponses : SaveDescribeResponds(resp)
    \/ \E resp \in PutResponses : SavePutResponds(resp)
    \/ \E resp \in DescribeResponses : OverlapDescribeResponds(resp)
    \/ \E resp \in PutResponses : OverlapPutResponds(resp)

----------------------------------------------------------------------------
(***************************************************************************)
(* CloudWatchCounters                                                      *)
(***************************************************************************)

\* The number of data points at which save() submits from inside its loop.
MetricsPerRequest == 20

\* Sizes of the batches save() is called with.
BatchSizes == {0, 1, MetricsPerRequest, MetricsPerRequest + 1, 2 * MetricsPerRequest + 5}

\* CounterType of pip-services3-components, by name.
CounterTypes == {"Interval", "LastValue", "Statistics", "Timestamp", "Increment"}

\* A Date, by its epoch milliseconds, and Date.getTime().
Date(ms) == [ms |-> ms]
GetTime(d) == d.ms

\* The counters save() is given.
Counters ==
    [ name : {"calls"}, type : CounterTypes, count : {3}, average : {2},
      min : {1}, max : {5}, last : {7}, time : {Date(1000)} ]

\* dimensions of save(): InstanceID = this._instance.
Dimensions == << [Name |-> "InstanceID", Value |-> "instance"] >>

\* A data point without Value, and one without StatisticValues.
NoValue      == [present |-> FALSE, v |-> 0]
NoStatistics == [present |-> FALSE, SampleCount |-> 0, Maximum |-> 0, Minimum |-> 0, Sum |-> 0]

\* No data point.
NoData ==
    [ MetricName |-> "", Timestamp |-> Date(0), Dimensions |-> <<>>, Unit |-> "",
      Value |-> NoValue, StatisticValues |-> NoStatistics ]

\* No counter.
NoCounter ==
    [ name |-> "", type |-> "none", count |-> 0, average |-> 0,
      min |-> 0, max |-> 0, last |-> 0, time |-> Date(0) ]

\* StatisticValues of an Interval or Statistics counter.
StatisticValues(counter) ==
    [ present |-> TRUE, SampleCount |-> counter.count, Maximum |-> counter.max,
      Minimum |-> counter.min, Sum |-> counter.count * counter.average ]

\* GetCounterData as it would be if an Interval carried no unit of its own.
GetCounterDataIntervalWithoutUnit(counter, now, dimensions) ==
    LET value == [ MetricName |-> counter.name, Timestamp |-> counter.time,
                   Dimensions |-> dimensions, Unit |-> "None",
                   Value |-> NoValue, StatisticValues |-> NoStatistics ] IN
    CASE counter.type = "Increment" ->
           [value EXCEPT !.Value = [present |-> TRUE, v |-> counter.count], !.Unit = "Count"]
      [] counter.type \in {"Interval", "Statistics"} ->
           [value EXCEPT !.StatisticValues = StatisticValues(counter)]
      [] counter.type = "LastValue" ->
           [value EXCEPT !.Value = [present |-> TRUE, v |-> counter.last]]
      [] counter.type = "Timestamp" ->
           [value EXCEPT !.Value = [present |-> TRUE, v |-> GetTime(counter.time)]]
      [] OTHER -> value

\* getCounterData(counter, now, dimensions): the data point of a counter.
GetCounterData(counter, now, dimensions) ==
    LET value == [ MetricName |-> counter.name, Timestamp |-> counter.time,
                   Dimensions |-> dimensions, Unit |-> "None",
                   Value |-> NoValue, StatisticValues |-> NoStatistics ] IN
    CASE counter.type = "Increment" ->
           [value EXCEPT !.Value = [present |-> TRUE, v |-> counter.count], !.Unit = "Count"]
      [] counter.type = "Interval" ->
           [value EXCEPT !.Unit = "Milliseconds",
                         !.StatisticValues = StatisticValues(counter)]
      [] counter.type = "Statistics" ->
           [value EXCEPT !.StatisticValues = StatisticValues(counter)]
      [] counter.type = "LastValue" ->
           [value EXCEPT !.Value = [present |-> TRUE, v |-> counter.last]]
      [] counter.type = "Timestamp" ->
           [value EXCEPT !.Value = [present |-> TRUE, v |-> GetTime(counter.time)]]
      [] OTHER -> value

\* this._source, the namespace of the metrics.
Source == "source"

\* A putMetricData call: whether its params were defined when it was made,
\* the counters of the batch whose data points params.MetricData holds
\* (first..last), and params.Namespace.
PutMetricData(defined, first, last) ==
    [ defined |-> defined, first |-> first, last |-> last,
      namespace |-> IF defined THEN Source ELSE Undefined ]

\* What putMetricData answers when it is called without params.
InvalidParams == ClientError("AWSError", "MultipleValidationErrors", Null)

\* What the service answers a putMetricData call with.
PutMetricErrors == {NoClientError, AccessDenied}

\* What the callback given to putMetricData, a function expression, may find
\* as its this: the response object of the SDK, or nothing.  It is never the
\* counters.
CallbackThis == {"response", Undefined}

\* A save() that has not been called yet.
IdleCntSave ==
    [ st        |-> "idle",     \* idle, returned
      batch     |-> 0,          \* counters.length
      wasOpen   |-> FALSE,      \* isOpen() when save was called
      hadClient |-> FALSE,      \* this._client != null as save read it
      afterClose |-> FALSE,     \* whether close() had been called, and open() not since
      err       |-> NoClientError,  \* the error save raised (it has no callback)
      counter   |-> NoCounter,  \* the counter the batch ends with
      data      |-> NoData,     \* the data point pushed last
      requests  |-> <<>>,       \* the putMetricData calls it made, in order
      answered  |-> 0,          \* how many of them have been answered
      failed    |-> 0,          \* how many were answered with an error
      logged    |-> <<>>,       \* errors given to this._logger.error of the counters
      thrown    |-> FALSE ]     \* whether a callback raised a TypeError

\* The putMetricData calls save() makes for n counters while it holds a
\* client: one from inside the loop for every counter from the 20th on (the
\* accumulator is not emptied before the loop ends, and params is assigned
\* after it), then one with all the data points.
SaveRequests(n) ==
    [k \in 1..(IF n >= MetricsPerRequest THEN n - MetricsPerRequest + 1 ELSE 0) |->
        PutMetricData(FALSE, 1, 0)]
    \o (IF n > 0 THEN << PutMetricData(TRUE, 1, n) >> ELSE <<>>)

\* The callback save() gives to putMetricData, called on thisArg with err:
\* an error is given to this._logger.error when this has a _logger.
PutMetricDataCallback(sv, err, thisArg) ==
    [sv EXCEPT
       !.answered = @ + 1,
       !.failed = IF err # NoClientError THEN @ + 1 ELSE @,
       !.thrown = @ \/ (err # NoClientError /\ thisArg = Undefined),
       !.logged = IF err # NoClientError /\ thisArg = "counters" THEN Append(@, err) ELSE @]

\* open() on open counters: callback(null) at once.
CountersOpenWhenOpen ==
    /\ cntOpened
    /\ UNCHANGED vars

\* open() on counters that are not open: the flag is set, then the first task
\* asks the resolver for a connection.
CountersOpen ==
    /\ ~cntOpened
    /\ cntResolving < MaxOpens
    /\ cntOpened' = TRUE
    /\ cntResolving' = cntResolving + 1
    /\ cntClosed' = FALSE
    /\ UNCHANGED <<cntClient, cntConnection, cntSave>>
    /\ UNCHANGED <<fnVars, clientVars, logVars>>

\* The resolver calls back with an error: the series ends with it.
CountersResolveFails ==
    /\ cntResolving > 0
    /\ cntResolving' = cntResolving - 1
    /\ cntConnection' = NullConnection
    /\ UNCHANGED <<cntOpened, cntClient, cntClosed, cntSave>>
    /\ UNCHANGED <<fnVars, clientVars, logVars>>

\* The resolver calls back with a connection: the second task constructs the
\* client.
CountersResolveSucceeds(conn) ==
    /\ cntResolving > 0
    /\ cntResolving' = cntResolving - 1
    /\ cntConnection' = conn
    /\ cntClient' = "CloudWatch"
    /\ UNCHANGED <<cntOpened, cntClosed, cntSave>>
    /\ UNCHANGED <<fnVars, clientVars, logVars>>

\* close(correlationId, callback)
CountersClose ==
    /\ cntOpened' = FALSE
    /\ cntClient' = Null
    /\ cntClosed' = TRUE
    /\ UNCHANGED <<cntConnection, cntResolving, cntSave>>
    /\ UNCHANGED <<fnVars, clientVars, logVars>>

\* save(counters) for n counters, the last of which is c: nothing without a
\* client.
CountersSave(n, c) ==
    /\ cntSave' = [IdleCntSave EXCEPT
                     !.st = "returned", !.batch = n,
                     !.wasOpen = cntOpened, !.hadClient = (cntClient # Null),
                     !.afterClose = cntClosed,
                     !.counter = IF n > 0 THEN c ELSE NoCounter,
                     !.data = IF cntClient # Null /\ n > 0
                              THEN GetCounterData(c, Date(2000), Dimensions) ELSE NoData,
                     !.requests = IF cntClient = Null THEN <<>> ELSE SaveRequests(n)]
    /\ UNCHANGED <<cntOpened, cntClient, cntConnection, cntResolving, cntClosed>>
    /\ UNCHANGED <<fnVars, clientVars, logVars>>

\* putMetricData answers the call of the save() made last that has waited
\* longest: a call made without params is answered with an error.
CountersPutResponds(err, thisArg) ==
    /\ cntSave.answered < Len(cntSave.requests)
    /\ IF cntSave.requests[cntSave.answered + 1].defined
       THEN err \in PutMetricErrors
       ELSE err = InvalidParams
    /\ cntSave' = PutMetricDataCallback(cntSave, err, thisArg)
    /\ UNCHANGED <<cntOpened, cntClient, cntConnection, cntResolving, cntClosed>>
    /\ UNCHANGED <<fnVars, clientVars, logVars>>

InitCounters ==
    /\ cntOpened = FALSE
    /\ cntClient = Null
    /\ cntConnection = NoConnection
    /\ cntResolving = 0
    /\ cntClosed = FALSE
    /\ cntSave = IdleCntSave

NextCounters ==
    \/ CountersOpenWhenOpen
    \/ CountersOpen
    \/ CountersResolveFails
    \/ \E conn \in Connections : CountersResolveSucceeds(conn)
    \/ CountersClose
    \/ \E n \in BatchSizes, c \in Counters : CountersSave(n, c)
    \/ \E err \in PutMetricErrors \cup {InvalidParams}, thisArg \in CallbackThis :
          CountersPutResponds(err, thisArg)

----------------------------------------------------------------------------
(***************************************************************************)
(* CommandableLambdaFunction                                               *)
(***************************************************************************)

\* The command sets a controller may have: commands of distinct names.
CommandSets == SUBSET ActionKeys

\* The command an action made by registerCommandSet executes.
CommandOf(action) == CHOOSE name \in ActionKeys : CommandAction(name) = action

\* The counter instrument() begins timing on: this._info.name + '.' + the
\* command's name + ".exec_time".
TimingName(name) == << "function", name, "exec_time" >>

\* A call of an action that has not been made yet.
IdleRun ==
    [ st        |-> "idle",     \* idle, executing, done
      key       |-> "",         \* the key of this._actions the action was found under
      correlationId |-> Null,   \* params.correlation_id
      timing    |-> <<>>,       \* the counter beginTiming was called with
      executed  |-> "",         \* the command whose execute was called
      executedWith |-> Null,    \* the correlation id execute was given
      trace     |-> <<>>,       \* beginTiming, execute, endTiming, callback: in order
      produced  |-> <<>>,       \* what the command gave its callback
      forwarded |-> <<>> ]      \* what the action gave its own callback

\* registerCommandSet(commandSet): registerAction(name, null, action) for
\* every command, in turn; an exception ends it.
RECURSIVE RegisterCommandSet(_, _)
RegisterCommandSet(acts, commands) ==
    IF commands = {} THEN [threw |-> FALSE, actions |-> acts]
    ELSE LET name == CHOOSE c \in commands : TRUE
             t == RegisterAction(acts, name, Null, CommandAction(name)) IN
         IF t.threw THEN t ELSE RegisterCommandSet(t.actions, commands \ {name})

\* The action of a command, called with params: instrument() begins the
\* timing, then command.execute is called.
CommandActionStarts(run, key, action, correlationId) ==
    [run EXCEPT !.st = "executing", !.key = key, !.correlationId = correlationId,
                !.timing = TimingName(CommandOf(action)),
                !.executed = CommandOf(action),
                !.executedWith = correlationId,
                !.trace = << "beginTiming", "execute" >>]

\* ExecuteCallback as it would be if the timing were left running.
ExecuteCallbackWithoutEndTiming(run, o) ==
    [run EXCEPT !.st = "done", !.produced = Append(@, o),
                !.trace = @ \o << "callback" >>,
                !.forwarded = Append(@, Done(o.err, o.result))]

\* The callback the action gives to command.execute: timing.endTiming(),
\* then callback(err, result).
ExecuteCallback(run, o) ==
    [run EXCEPT !.st = "done", !.produced = Append(@, o),
                !.trace = @ \o << "endTiming", "callback" >>,
                !.forwarded = Append(@, Done(o.err, o.result))]

\* register(), which setReferences runs once: the command set of the
\* controller is registered.
CommandableRegister(commands) ==
    /\ ~registered
    /\ LET t == RegisterCommandSet(actions, commands) IN
         registerThrew' = t.threw /\ actions' = t.actions
    /\ registered' = TRUE
    /\ commandSet' = commands
    /\ UNCHANGED <<containerOpened, runCount, hooks, inv, cmdRuns>>
    /\ UNCHANGED <<clientVars, logVars, cntVars>>

\* The action registered under key is called (by execute, through the
\* wrapper of registerAction, which validates nothing without a schema).
CommandActionCalled(i, key, correlationId) ==
    /\ registered
    /\ cmdRuns[i].st = "idle" /\ \A j \in InvIds : j < i => cmdRuns[j].st # "idle"
    /\ GetAction(actions, key).action \in CommandActions
    /\ cmdRuns' = [cmdRuns EXCEPT ![i] =
                     CommandActionStarts(@, key, GetAction(actions, key).action, correlationId)]
    /\ UNCHANGED <<actions, containerOpened, runCount, hooks, registerThrew, inv,
                   registered, commandSet>>
    /\ UNCHANGED <<clientVars, logVars, cntVars>>

\* A command calls the callback execute gave it, with outcome o.
CommandCompletes(i, o) ==
    /\ cmdRuns[i].st = "executing"
    /\ cmdRuns' = [cmdRuns EXCEPT ![i] = ExecuteCallback(@, o)]
    /\ UNCHANGED <<actions, containerOpened, runCount, hooks, registerThrew, inv,
                   registered, commandSet>>
    /\ UNCHANGED <<clientVars, logVars, cntVars>>

InitCommandable ==
    /\ registered = FALSE
    /\ commandSet = {}
    /\ cmdRuns = [i \in InvIds |-> IdleRun]

NextCommandable ==
    \/ \E commands \in CommandSets : CommandableRegister(commands)
    \/ \E i \in InvIds, key \in EventCmds, cid \in CorrelationIds :
          CommandActionCalled(i, key, cid)
    \/ \E i \in InvIds, o \in Outcomes : CommandCompletes(i, o)

----------------------------------------------------------------------------
(***************************************************************************)
(* Initial state and specifications                                        *)
(***************************************************************************)

InitClient ==
    /\ opened = FALSE
    /\ connection = NoConnection
    /\ lambda = 0
    /\ opens = 0
    /\ opening = {}
    /\ lastOp = Step("none", NoClientError)
    /\ call = IdleCall
    /\ config = NoConfig

NextClient ==
    \/ OpenWhenOpen
    \/ Open
    \/ \E c \in Configs : Configure(c)
    \/ \E n \in 1..MaxOpens : ResolverCallsBack(n)
    \/ Close
    \/ \E cmd \in CallCmds, cid \in CorrelationIds, args \in CallArgs,
          cb \in BOOLEAN, gen \in GeneratedIds : Call(cmd, cid, args, cb, gen)
    \/ \E cmd \in CallCmds, cid \in CorrelationIds, args \in CallArgs,
          cb \in BOOLEAN, gen \in GeneratedIds : CallOneWay(cmd, cid, args, cb, gen)
    \/ \E resp \in Responses : Responds(resp)

InitFunction ==
    /\ actions = [k \in ActionKeys |-> NoAction]
    /\ containerOpened = FALSE
    /\ runCount = 0
    /\ hooks = 0
    /\ registerThrew = FALSE
    /\ inv = [i \in InvIds |-> IdleInvocation]
    /\ InitCommandable

Init == InitFunction /\ InitClient /\ InitLogger /\ InitCounters

NextFunction ==
    \/ \E cmd \in RegisterCmds, schema \in Schemas, action \in RegisterValues :
          Register(cmd, schema, action)
    \/ \E i \in InvIds, cmd \in EventCmds, valid \in BOOLEAN : HandlerExecute(i, cmd, valid)
    \/ \E i \in InvIds, cmd \in EventCmds, early \in BOOLEAN : HandlerRun(i, cmd, early)
    \/ \E i \in InvIds : HandlerRunThrows(i)
    \/ \E i \in InvIds, err \in {NoError, OpenError}, valid \in BOOLEAN :
          OpenCompletes(i, err, valid)
    \/ \E i \in InvIds, o \in Outcomes : ActionCompletes(i, o)

\* Each component alone: no two of them share state (the commandable
\* function is a LambdaFunction and fills the same table of actions).
SpecFunction == Init /\ [][NextFunction]_vars
SpecClient   == Init /\ [][NextClient]_vars
SpecLogger   == Init /\ [][NextLogger]_vars
SpecCounters == Init /\ [][NextCounters]_vars
SpecCommandable == Init /\ [][NextCommandable]_vars

----------------------------------------------------------------------------
(***************************************************************************)
(* Properties of LambdaFunction, checked under SpecFunction                *)
(***************************************************************************)

\* Whether an action is registered under the command of invocation record r.
HasAction(r) == r.cmd \in ActionKeys /\ actions[r.cmd] # NoAction

\* Whether the wrapper registered under r.cmd lets the event of r through to
\* its handler: it has no schema, or the schema accepted the event.
Passes(r) == actions[r.cmd].schema = Null \/ r.valid

\* C1: execute on an event whose cmd is absent or null completes the
\* invocation with BadRequest NO_COMMAND and a null result, exactly once,
\* and invokes no registered action.
C1_NoCommand ==
    \A i \in InvIds :
        (inv[i].executed /\ IsNullish(inv[i].cmd)) =>
            /\ inv[i].st = "done"
            /\ inv[i].done = << Done(BadRequest("NO_COMMAND", Null), Null) >>
            /\ inv[i].curl = <<>>
            /\ inv[i].called = <<>>

\* C1 witness: an event without cmd was executed while an action was registered.
C1_Witness ==
    \E i \in InvIds :
        /\ inv[i].executed /\ inv[i].cmd = Undefined /\ inv[i].st = "done"
        /\ \E k \in ActionKeys : actions[k] # NoAction

\* C2 (as claimed): when event.cmd names a command for which no action is
\* registered, execute completes the invocation with BadRequest NO_ACTION
\* whose details carry the command name, and no action is invoked.
C2_NoAction ==
    \A i \in InvIds :
        (inv[i].executed /\ ~IsNullish(inv[i].cmd) /\ ~HasAction(inv[i])) =>
            /\ inv[i].st = "done"
            /\ inv[i].done = << Done(BadRequest("NO_ACTION", inv[i].cmd), Null) >>
            /\ inv[i].curl = <<>>
            /\ inv[i].called = <<>>

\* C3: when event.cmd matches a registered action, execute invokes the
\* wrapper registered under that command exactly once with the event, the
\* wrapper invokes exactly the registered handler (once, with the event, and
\* no other handler) unless its schema rejects the event, and what the
\* handler passes to its callback is what context.done receives, once.
C3_DispatchesRegisteredAction ==
    \A i \in InvIds :
        (inv[i].executed /\ HasAction(inv[i])) =>
            /\ inv[i].curl = << <<inv[i].cmd, i>> >>
            /\ Passes(inv[i])  => inv[i].called = << <<actions[inv[i].cmd].action, i>> >>
            /\ ~Passes(inv[i]) => inv[i].called = <<>>
            /\ Passes(inv[i]) =>
                  /\ Len(inv[i].produced) <= 1
                  /\ Len(inv[i].done) = Len(inv[i].produced)
                  /\ \A n \in 1..Len(inv[i].done) :
                        /\ inv[i].done[n].err = inv[i].produced[n].err
                        /\ inv[i].done[n].result = inv[i].produced[n].result
                  /\ (inv[i].st = "done") = (Len(inv[i].done) = 1)

\* C3 witness: with two actions registered, an invocation of one of them has
\* delivered its handler's result.
C3_Witness ==
    \E i \in InvIds :
        /\ \A k \in ActionKeys : actions[k] # NoAction
        /\ actions["a"].action # actions["b"].action
        /\ inv[i].executed /\ HasAction(inv[i]) /\ inv[i].st = "done"
        /\ Len(inv[i].done) = 1 /\ inv[i].done[1].result = "result"

\* C4: an invocation that found the container not open ran the
\* initialization and was executed only after its open() had succeeded; an
\* invocation that found the container open was executed at once and ran
\* no initialization.
C4_StartBeforeExecute ==
    \A i \in InvIds :
        /\ (inv[i].st # "idle" /\ ~inv[i].atOpen) => inv[i].ran
        /\ (inv[i].executed /\ ~inv[i].atOpen) => inv[i].openRes = "ok"
        /\ inv[i].st = "opening" =>
              ~inv[i].executed /\ inv[i].curl = <<>> /\ inv[i].done = <<>>
        /\ inv[i].atOpen => inv[i].executed /\ ~inv[i].ran /\ inv[i].openRes = "none"

\* C4 witness: one invocation was executed after its own successful open and
\* a later one, finding the container open, was executed directly.
C4_Witness ==
    \E i, j \in InvIds :
        /\ inv[i].ran /\ inv[i].openRes = "ok" /\ inv[i].executed
        /\ inv[j].atOpen /\ inv[j].executed /\ ~inv[j].ran

\* C5 (as claimed): a failed initialization is delivered as done(err, null),
\* the event is dispatched to no action, and nothing is thrown out of the
\* entry point.
C5_InitFailureIsResult ==
    \A i \in InvIds :
        /\ inv[i].openRes = "err" =>
              /\ inv[i].st = "done"
              /\ inv[i].done = << Done(OpenError, Null) >>
              /\ ~inv[i].executed /\ inv[i].curl = <<>> /\ inv[i].called = <<>>
        /\ inv[i].st # "thrown"

----------------------------------------------------------------------------
(***************************************************************************)
(* Properties of LambdaClient, checked under SpecClient                    *)
(***************************************************************************)

\* The call last made was made with a command invoke accepts.
ValidCommand == call.st # "idle" /\ ~IsNullish(call.cmd) /\ call.cmd # ""

\* C6 (as claimed), for calls made on an open client: invoke with a command
\* that is null or empty issues no remote request and reports an
\* invalid-command error, to the callback with a null result when there is
\* one, otherwise to the logger.
C6_NullOrEmptyCommand ==
    (call.st # "idle" /\ call.wasOpen /\ (IsNullish(call.cmd) \/ call.cmd = "")) =>
        /\ call.requests = <<>>
        /\ call.hasCallback =>
              call.callbacks = << Done(MissingCommand, NullResult) >> /\ call.logged = <<>>
        /\ ~call.hasCallback =>
              call.callbacks = <<>> /\ call.logged = << MissingCommand >>

\* C7: for a valid command on an open client, invoke issues at most one
\* remote request; the request names the ARN of the connection the client
\* holds, and its payload is the serialization of an object that has the
\* caller's args, cmd = command and correlation_id = the supplied
\* correlation id, or a generated non-empty id when none was supplied.
C7_RequestTargetAndPayload ==
    (ValidCommand /\ call.wasOpen) =>
        /\ Len(call.requests) <= 1
        /\ call.st \in {"pending", "done"} => Len(call.requests) = 1
        /\ \A n \in 1..Len(call.requests) :
              LET params == call.requests[n]
                  sent   == params.Payload.json
              IN
              /\ call.held \in Connections
              /\ params.FunctionName = call.held.arn
              /\ params.Payload.kind = "string"
              /\ DOMAIN sent = DOMAIN call.args \cup {"cmd", "correlation_id"}
              /\ \A f \in DOMAIN call.args \ {"cmd", "correlation_id"} : sent[f] = call.args[f]
              /\ sent["cmd"] = call.cmd
              /\ IF call.correlationId \notin {Null, Undefined, ""}
                 THEN sent["correlation_id"] = call.correlationId /\ call.generated = Null
                 ELSE /\ sent["correlation_id"] = call.generated
                      /\ call.generated \in GeneratedIds
                      /\ call.generated # ""

\* C7 witness: an open client was called with args that already had a cmd
\* field and with no correlation id, and the request went out.
C7_Witness ==
    /\ ValidCommand /\ call.wasOpen /\ call.correlationId = Null
    /\ "cmd" \in DOMAIN call.args
    /\ Len(call.requests) = 1 /\ call.st = "done"

\* C8: every request call issues has InvocationType "RequestResponse" and
\* every request callOneWay issues has "Event"; made with a valid command on
\* a client that holds a connection, each issues exactly one request, and
\* with a missing command neither issues any.
C8_InvocationType ==
    call.st # "idle" =>
        /\ call.via \in {"call", "callOneWay"}
        /\ \A n \in 1..Len(call.requests) :
              call.requests[n].InvocationType =
                  (IF call.via = "call" THEN "RequestResponse" ELSE "Event")
        /\ (~IsNullish(call.cmd) /\ call.held \in Connections) => Len(call.requests) = 1
        /\ IsNullish(call.cmd) => Len(call.requests) = 0

\* C8 witness: callOneWay has issued its request.
C8_Witness ==
    /\ call.via = "callOneWay" /\ ValidCommand
    /\ Len(call.requests) = 1 /\ call.requests[1].InvocationType = "Event"

\* C9: when the remote invocation fails, a call made with a callback gives
\* it, once, an InvocationException CALL_FAILED whose cause is the transport
\* error, with a null result, and logs nothing; a call made without one logs
\* the transport error, calls nothing back and raises nothing.
C9_TransportFailure ==
    (call.st = "done" /\ call.response.err # NoClientError) =>
        /\ call.hasCallback =>
              /\ call.callbacks =
                    << Done([type |-> "InvocationException", code |-> "CALL_FAILED",
                             cause |-> call.response.err], NullResult) >>
              /\ call.logged = <<>>
        /\ ~call.hasCallback =>
              /\ call.callbacks = <<>>
              /\ call.logged = << call.response.err >>

\* C9 witness: the remote call failed for a call made with a callback.
C9_Witness ==
    /\ call.st = "done" /\ call.response.err = TransportError /\ call.hasCallback
    /\ Len(call.callbacks) = 1

\* C10 (as claimed): when the remote invocation succeeds with a string
\* payload that cannot be decoded, the callback is given an error coded
\* DESERIALIZATION_FAILED (not CALL_FAILED), and the undecoded payload is
\* never given to it as a successful result.
C10_UndecodablePayload ==
    ( /\ call.st = "done" /\ call.hasCallback /\ Len(call.requests) = 1
      /\ call.response.err = NoClientError
      /\ IsString(call.response.Payload) /\ JsonParse(call.response.Payload).threw ) =>
        /\ \E n \in 1..Len(call.callbacks) :
              /\ call.callbacks[n].err.code = "DESERIALIZATION_FAILED"
              /\ call.callbacks[n].result = NullResult
        /\ \A n \in 1..Len(call.callbacks) :
              ~(call.callbacks[n].err = NoClientError
                  /\ call.callbacks[n].result = call.response.Payload)

----------------------------------------------------------------------------
(***************************************************************************)
(* Properties of registerAction and its wrapper, checked under SpecFunction *)
(***************************************************************************)

\* C13: registerAction called with an empty command, or with a handler that
\* is missing or is not a function, throws, and leaves the table of
\* registered actions as it was.
C13_RegisterActionThrows ==
    [][ \A cmd \in RegisterCmds, schema \in Schemas, action \in RegisterValues :
            (Register(cmd, schema, action) /\ (cmd = "" \/ action \notin Handlers)) =>
                (registerThrew' /\ actions' = actions) ]_vars

\* C13 witness: a registerAction threw after another had registered an action.
C13_Witness ==
    registerThrew /\ \E k \in ActionKeys : actions[k] # NoAction

\* C14: an invocation of a command registered with a schema is validated
\* when its wrapper is called; if the schema rejects the event the invocation
\* completes with the validation error and a null result, once, and the
\* handler is not invoked; if it accepts, the handler is invoked once.
C14_ValidatesBeforeHandler ==
    \A i \in InvIds :
        (inv[i].executed /\ HasAction(inv[i]) /\ actions[inv[i].cmd].schema # Null) =>
            /\ ~inv[i].valid =>
                  /\ inv[i].st = "done"
                  /\ inv[i].done = << Done(ValidationError, Null) >>
                  /\ inv[i].called = <<>>
            /\ inv[i].valid =>
                  inv[i].called = << <<actions[inv[i].cmd].action, i>> >>

\* C14 witness: the schema of a registered action rejected an event.
C14_Witness ==
    \E i \in InvIds :
        /\ inv[i].executed /\ HasAction(inv[i]) /\ actions[inv[i].cmd].schema # Null
        /\ ~inv[i].valid /\ inv[i].st = "done" /\ Len(inv[i].done) = 1

----------------------------------------------------------------------------
(***************************************************************************)
(* Properties of LambdaClient.open / close, checked under SpecClient       *)
(***************************************************************************)

\* C11: open() on a client that is already open calls back at once with no
\* error: it asks for no connection resolution, constructs no handle, and
\* leaves the held connection, the handle and the opened flag as they were.
C11_OpenWhenOpenIsNoOp ==
    [][ (lastOp' # lastOp /\ lastOp'.op = "openWhenOpen") =>
            /\ opened
            /\ lastOp'.err = NoClientError
            /\ UNCHANGED <<opened, connection, lambda, opens, opening>> ]_vars

\* C11 witness: open() was called on a client that an earlier open() opened.
C11_Witness ==
    lastOp.op = "openWhenOpen" /\ opened /\ lambda # 0 /\ connection \in Connections

\* C12: the handle is constructed only with a resolved connection; isOpen()
\* turns true only in the step of a successful resolution, which also holds
\* the handle of that open(); a failed resolution reports its error to
\* open's callback, constructs no handle and does not change isOpen(); and
\* close() leaves isOpen() false.
C12_ResolveThenHandle ==
    [][ /\ (lambda' # lambda) =>
              lastOp'.op = "resolveSucceeds" /\ connection' \in Connections
        /\ (opened' /\ ~opened) =>
              /\ lastOp'.op = "resolveSucceeds" /\ lastOp'.err = NoClientError
              /\ connection' \in Connections
              /\ lambda' \in opening /\ lambda' \notin opening'
        /\ (opening' # opening /\ lastOp'.op = "resolveFails") =>
              /\ lastOp'.err = ResolveError
              /\ lambda' = lambda /\ opened' = opened
        /\ (lastOp' # lastOp /\ lastOp'.op = "close") => ~opened' ]_vars

\* C12 witness: the resolution of the first open() failed, and the client is
\* not open and has no handle.
C12_Witness ==
    lastOp = Step("resolveFails", ResolveError) /\ ~opened /\ lambda = 0

----------------------------------------------------------------------------
(***************************************************************************)
(* Properties of CloudWatchLogger, checked under SpecLogger                *)
(***************************************************************************)

\* How the stream task of the open() followed ended without an error: the
\* stream was created, or it existed and describeLogStreams answered.
StreamStepSucceeded(o) ==
    \/ o.reachedStream /\ o.st = "done" /\ o.streamErr = NoClientError
    \/ o.streamErr = AlreadyExists /\ o.described \in {"found", "empty"}

\* C15 (as claimed): once the final flush of a close() called on an open
\* logger is over, whatever it did, close has stopped the timer, dropped the
\* client, and called its completion callback.
C15_CloseCompletes ==
    (logClose.st # "idle" /\ logClose.wasOpen
        /\ ~(logSave.caller = "close" /\ InFlight(logSave))
        /\ logOverlap.caller # "close") =>
        /\ logClose.st = "closed"
        /\ logClose.timer = Null /\ logClose.client = Null
        /\ logClose.callbacks = 1

\* C16: when createLogGroup answers that the group exists already, open()
\* goes on to the stream task; when it answers with another error, open()
\* ends with that error, never reaches the stream task and starts no timer.
C16_GroupAlreadyExists ==
    /\ logOpen.groupErr = AlreadyExists => logOpen.reachedStream
    /\ logOpen.groupErr = AccessDenied =>
          /\ logOpen.st = "failed" /\ logOpen.err = AccessDenied
          /\ ~logOpen.reachedStream /\ ~logOpen.startedTimer
          /\ timer = Null

\* C16 witness: an open() whose createLogGroup said "already exists" has
\* completed and started the timer.
C16_Witness ==
    logOpen.groupErr = AlreadyExists /\ logOpen.st = "done" /\ timer # Null

\* C17: in the step that completes open(), the held token is the token
\* describeLogStreams reported if the stream existed, and null if the stream
\* was created; and the timer is started only in such a step, after the
\* stream task has succeeded.
C17_TokenRecovered ==
    [][ /\ (logOpen'.st = "done" /\ logOpen.st # "done") =>
              /\ (logOpen'.streamErr = AlreadyExists /\ logOpen'.described = "found") =>
                    lastToken' = logOpen'.reported /\ lastToken' \in Tokens
              /\ logOpen'.streamErr = NoClientError => lastToken' = Null
        /\ (timer' # Null /\ timer = Null) =>
              /\ logOpen'.st = "done" /\ logOpen'.startedTimer
              /\ StreamStepSucceeded(logOpen') ]_vars

\* C17 witness: an open() that found the stream existing has completed, and
\* the held token is the one describeLogStreams reported.
C17_Witness ==
    /\ logOpen.st = "done" /\ logOpen.streamErr = AlreadyExists
    /\ logOpen.described = "found" /\ lastToken = logOpen.reported /\ timer # Null

\* C20 (as claimed): a save() that calls putLogEvents called
\* describeLogStreams before, sends the token that call reported, and after
\* a successful write holds the next sequence token of the response.
C20_TokenRefetched ==
    (Len(logSave.requests) > 0 /\ logSave.st \in {"put", "written"}) =>
        /\ logSave.requests = << "describeLogStreams", "putLogEvents" >>
        /\ logSave.fetched # Null => logSave.sent = logSave.fetched
        /\ (logSave.st = "written" /\ logSave.putErr = NoClientError) =>
              logSave.tokenAfter = logSave.next

----------------------------------------------------------------------------
(***************************************************************************)
(* Properties of save() of both sinks, checked under SpecCounters          *)
(***************************************************************************)

\* C18 (as claimed): a save() called while the sink is not open, or with an
\* empty batch, makes no remote call (and, for the logger, takes the path
\* that assigns nothing).
C18_SaveNoOp ==
    /\ (logSave.st # "idle" /\ (~logSave.wasOpen \/ logSave.batch = 0)) =>
          logSave.st = "noop" /\ logSave.requests = <<>>
    /\ (cntSave.st # "idle" /\ (~cntSave.wasOpen \/ cntSave.batch = 0)) =>
          cntSave.requests = <<>>

\* C19 (as claimed): a save() of a non-empty batch called while the sink is
\* open but holds no client fails with a NOT_OPENED error and makes no
\* remote call.
C19_NotOpened ==
    /\ (logSave.st # "idle" /\ logSave.wasOpen /\ logSave.batch > 0
            /\ ~logSave.hadClient) =>
          logSave.callbacks = << NotOpened >> /\ logSave.requests = <<>>
    /\ (cntSave.st # "idle" /\ cntSave.wasOpen /\ cntSave.batch > 0
            /\ ~cntSave.hadClient) =>
          cntSave.err = NotOpened /\ cntSave.requests = <<>>

----------------------------------------------------------------------------
(***************************************************************************)
(* Flushing of CloudWatchLogger, checked under SpecLogger                  *)
(***************************************************************************)

\* C21: when putLogEvents answers a save() with an error, the error is given
\* to this._logger.error and to nobody else: the save raises nothing, its
\* callback is not called with the error, and the timer is left running.
C21_WriteFailureSwallowed ==
    [][ (logSave.st = "put" /\ logSave'.st # "put" /\ logSave'.putErr # NoClientError)
        => /\ logSave'.st = "written"
           /\ logSave'.logged = Append(logSave.logged, logSave'.putErr)
           /\ logSave'.callbacks = logSave.callbacks
           /\ \A k \in DOMAIN logSave'.callbacks : logSave'.callbacks[k] = NoClientError
           /\ timer' = timer
           /\ logOpen' = logOpen ]_vars

\* A write of a tick was rejected while the timer runs.
C21_Witness ==
    /\ logSave.st = "written"
    /\ logSave.caller = "dump"
    /\ logSave.putErr = PutRejected
    /\ logSave.logged = << PutRejected >>
    /\ timer # Null

\* C22: a save() whose held token differs from the one the service reports
\* and whose putLogEvents is rejected calls putLogEvents again, with the token
\* it fetched.
C22_RetriesWithFreshToken ==
    (/\ logSave.st = "written"
     /\ logSave.putErr = PutRejected
     /\ logSave.fetched # logSave.held)
    => \E j, k \in DOMAIN logSave.requests :
          /\ j < k
          /\ logSave.requests[j] = "putLogEvents"
          /\ logSave.requests[k] = "putLogEvents"
\* C27: no two save() series of the logger are in flight at a time.
C27_OneFlushInFlight ==
    ~(InFlight(logSave) /\ logOverlap.st # "none")
----------------------------------------------------------------------------
(***************************************************************************)
(* Properties of CloudWatchCounters, checked under SpecCounters            *)
(***************************************************************************)

\* The number of data points a putMetricData call carries.
Size(rq) == rq.last - rq.first + 1

\* C23 (as claimed): the putMetricData calls of a save() that holds a client
\* carry at most 20 data points each, there are ceil(n/20) of them for n
\* counters, and 45 counters make calls of 20, 20 and 5 data points.
C23_ChunksOfTwenty ==
    (cntSave.st = "returned" /\ cntSave.hadClient) =>
        /\ \A k \in DOMAIN cntSave.requests : Size(cntSave.requests[k]) <= MetricsPerRequest
        /\ Len(cntSave.requests)
              = (cntSave.batch + MetricsPerRequest - 1) \div MetricsPerRequest
        /\ cntSave.batch = 2 * MetricsPerRequest + 5 =>
              [k \in DOMAIN cntSave.requests |-> Size(cntSave.requests[k])]
                 = << MetricsPerRequest, MetricsPerRequest, 5 >>

\* C24 (as claimed): every counter of the batch of a save() that holds a
\* client is carried by exactly one of its putMetricData calls, and every
\* call is made with params that are defined and name the configured
\* namespace.
C24_RequestsPartitionBatch ==
    (cntSave.st = "returned" /\ cntSave.hadClient) =>
        /\ \A c \in 1..cntSave.batch :
              Cardinality({k \in DOMAIN cntSave.requests :
                              /\ cntSave.requests[k].first <= c
                              /\ c <= cntSave.requests[k].last}) = 1
        /\ \A k \in DOMAIN cntSave.requests :
              /\ cntSave.requests[k].defined
              /\ cntSave.requests[k].namespace = Source

\* The parts of the data point of a counter that do not depend on its kind.
CommonShape(c, d) ==
    /\ d.MetricName = c.name
    /\ d.Timestamp = c.time
    /\ d.Dimensions = Dimensions

\* The data point of a counter other than an Interval, as claimed.
ShapeOfOthers(c, d) ==
    /\ c.type = "Increment" =>
          /\ d.Value = [present |-> TRUE, v |-> c.count]
          /\ d.Unit = "Count"
          /\ ~d.StatisticValues.present
    /\ c.type = "Statistics" =>
          /\ d.StatisticValues = [present |-> TRUE, SampleCount |-> c.count,
                                  Maximum |-> c.max, Minimum |-> c.min,
                                  Sum |-> c.count * c.average]
          /\ d.Unit = "None"
          /\ ~d.Value.present
    /\ c.type = "LastValue" =>
          /\ d.Value = [present |-> TRUE, v |-> c.last]
          /\ ~d.StatisticValues.present
    /\ c.type = "Timestamp" =>
          /\ d.Value = [present |-> TRUE, v |-> c.time.ms]
          /\ ~d.StatisticValues.present

\* C25 (amended): the data point save() builds for a counter has the shape
\* of its kind: Increment the count as Value in unit Count; Statistics the
\* StatisticValues (count, min, max, count * average) in unit None; Interval
\* the same StatisticValues in unit Milliseconds; LastValue the last value
\* as Value; Timestamp the epoch milliseconds of its time as Value.
C25_CounterDataShape ==
    (cntSave.st = "returned" /\ cntSave.data # NoData) =>
        LET c == cntSave.counter
            d == cntSave.data IN
        /\ CommonShape(c, d)
        /\ ShapeOfOthers(c, d)
        /\ c.type = "Interval" =>
              /\ d.StatisticValues = [present |-> TRUE, SampleCount |-> c.count,
                                      Maximum |-> c.max, Minimum |-> c.min,
                                      Sum |-> c.count * c.average]
              /\ d.Unit = "Milliseconds"
              /\ ~d.Value.present

\* C25 witness: a save() has built the data point of an Interval counter.
C25_Witness ==
    /\ cntSave.st = "returned"
    /\ cntSave.counter.type = "Interval"
    /\ cntSave.data.StatisticValues.present
    /\ cntSave.data.StatisticValues.Sum = 6
    /\ cntSave.data.Unit = "Milliseconds"

\* C25 (as claimed): as above, but an Interval carries its StatisticValues
\* with no unit of its own, as Statistics does.
C25_IntervalWithoutUnit ==
    (cntSave.st = "returned" /\ cntSave.data # NoData) =>
        LET c == cntSave.counter
            d == cntSave.data IN
        /\ ShapeOfOthers(c, d)
        /\ c.type = "Interval" =>
              /\ d.StatisticValues.present
              /\ d.Unit = "None"

\* C26 (as claimed): every error putMetricData answered a save() with has
\* been given to the logger of the counters, and no callback raised.
C26_PutFailureLogged ==
    /\ Len(cntSave.logged) = cntSave.failed
    /\ ~cntSave.thrown

\* C28 (as claimed): between a close() and the next open() a sink makes no
\* remote call and runs no timer.
C28_QuietAfterClose ==
    /\ (cntSave.st # "idle" /\ cntSave.afterClose) => cntSave.requests = <<>>
    /\ logClose.st = "closed" => timer = Null

----------------------------------------------------------------------------
(***************************************************************************)
(* Connection parameters, checked under SpecClient                         *)
(***************************************************************************)

\* C29 (as claimed): after close() the client or sink holds no connection
\* parameters.
C29_ConnectionDiscarded ==
    /\ lastOp.op = "close" => connection \notin Connections
    /\ logClose.st = "closed" => logConnection \notin Connections
    /\ cntClosed => cntConnection \notin Connections
----------------------------------------------------------------------------
(***************************************************************************)
(* Properties of CommandableLambdaFunction, checked under SpecCommandable  *)
(***************************************************************************)

\* C30: after register() every command of the controller's command set has
\* its action under its own name and no other key has one; a call of such an
\* action begins the timing of that command, then executes the command, and
\* when the command completes ends the timing once and only then gives its
\* callback what the command produced.
C30_RegisterCommands ==
    /\ registered =>
          /\ ~registerThrew
          /\ \A name \in ActionKeys :
                actions[name] = IF name \in commandSet
                                THEN [schema |-> Null, action |-> CommandAction(name)]
                                ELSE NoAction
    /\ \A i \in InvIds :
          LET run == cmdRuns[i] IN
          /\ run.st # "idle" =>
                /\ run.key \in commandSet
                /\ run.executed = run.key
                /\ run.timing = TimingName(run.key)
                /\ run.executedWith = run.correlationId
                /\ SubSeq(run.trace, 1, 2) = << "beginTiming", "execute" >>
          /\ run.st = "executing" => run.trace = << "beginTiming", "execute" >>
          /\ run.st = "done" =>
                /\ run.trace = << "beginTiming", "execute", "endTiming", "callback" >>
                /\ Len(run.produced) = 1
                /\ run.forwarded = << Done(run.produced[1].err, run.produced[1].result) >>

\* C30 witness: with two commands registered, the action of one has run to
\* the end and forwarded an error.
C30_Witness ==
    /\ registered /\ commandSet = ActionKeys
    /\ \E i \in InvIds :
          /\ cmdRuns[i].st = "done"
          /\ cmdRuns[i].executed = "b"
          /\ cmdRuns[i].forwarded = << Done(ActionError, Null) >>
----------------------------------------------------------------------------
(***************************************************************************)
(* Connection resolution of LambdaClient, checked under SpecClient         *)
(***************************************************************************)

\* A step in which the resolver calls back for an open() in flight.
ResolverStep == opening' # opening /\ opening' \subseteq opening

\* C31: when the configuration supplies an ARN, or the parts of one, and
\* credentials, the resolver's callback opens the client and the connection
\* then held has the ARN supplied or built from the parts; a call made on
\* that connection names it as FunctionName.
C31_ResolvedArn ==
    [][ /\ (ResolverStep /\ config \in {ArnConfig, TupleConfig}) =>
              /\ lastOp' = Step("resolveSucceeds", NoClientError)
              /\ opened'
              /\ connection'.kind = "AwsConnectionParams"
              /\ config = ArnConfig =>
                    GetArn(connection') = "arn:aws:lambda:us-east-1:1:function:f"
              /\ config = TupleConfig =>
                    GetArn(connection') = "arn:aws:lambda:eu-west-1:2:function:g"
        /\ \A k \in DOMAIN call'.requests :
              call'.requests[k].FunctionName = GetArn(call'.held) ]_vars

\* C31 witness: a client opened from the parts of an ARN has a call in
\* flight to the ARN built from them.
C31_Witness ==
    /\ opened /\ config = TupleConfig
    /\ GetArn(connection) = "arn:aws:lambda:eu-west-1:2:function:g"
    /\ call.st = "pending"
    /\ call.requests[1].FunctionName = "arn:aws:lambda:eu-west-1:2:function:g"

\* C32: when the configuration supplies neither an ARN nor credentials, the
\* resolver's callback gives open() a configuration error: the client is
\* left not open, no handle is constructed and no remote call is made.
C32_ResolveFailsFast ==
    [][ (ResolverStep /\ config = NoConfig) =>
              /\ lastOp' = Step("resolveFails", ResolveError)
              /\ ResolveError.type = "ConfigException"
              /\ ~opened'
              /\ lambda' = lambda
              /\ call' = call ]_vars

\* C32 witness: an open() of an unconfigured client has failed.
C32_Witness ==
    /\ config = NoConfig
    /\ lastOp = Step("resolveFails", ResolveError)
    /\ connection = NullConnection
    /\ ~opened /\ opens > 0 /\ opening = {}
----------------------------------------------------------------------------
(***************************************************************************)
(* Initialization of LambdaFunction, checked under SpecFunction            *)
(***************************************************************************)

\* C33 (as claimed): no two invocations have an initialization (run() and
\* the open() it calls) in progress together, and an invocation enters
\* execute only while no initialization is in progress for another.
C33_InitializedOnce ==
    [][ /\ Cardinality({i \in InvIds : inv'[i].st = "opening"}) <= 1
        /\ \A i \in InvIds :
              (inv'[i].executed /\ ~inv[i].executed) =>
                  \A j \in InvIds \ {i} : inv[j].st # "opening" ]_vars
----------------------------------------------------------------------------
(***************************************************************************)
(* invoke and its callers, checked under SpecClient                        *)
(***************************************************************************)

CallCommand(callbacks) ==
    [ endTimings |-> Len(callbacks), callbacks |-> callbacks ]

\* C35 (as claimed): an invoke made with a callback and answered has called
\* that callback exactly once, whatever the answer was; so callCommand has
\* ended its timing once and called its caller's callback once.
C35_CallbackOnce ==
    (call.st = "done" /\ call.hasCallback) =>
        /\ Len(call.callbacks) = 1
        /\ CallCommand(call.callbacks).endTimings = 1
        /\ Len(CallCommand(call.callbacks).callbacks) = 1

\* C36 (as claimed): an invoke made while the client was not open (before
\* any successful open, or after close) has issued no remote invocation.
C36_InvokesOnlyWhileOpen ==
    (call.st # "idle" /\ ~call.wasOpen) => call.requests = <<>>
----------------------------------------------------------------------------
(***************************************************************************)
(* CloudWatchCounters.open, checked under SpecCounters                     *)
(***************************************************************************)

\* C37 (as claimed): once no open() is in progress, the counters answer
\* isOpen() true only while they hold a remote client; after a resolution
\* that failed they are not open, so the next open() resolves again.
C37_OpenOnlyWithClient ==
    cntResolving = 0 => (cntOpened => cntClient # Null)
----------------------------------------------------------------------------
(***************************************************************************)
(* The flush timer of CloudWatchLogger, checked under SpecLogger           *)
(***************************************************************************)

\* C38 (as claimed): never more than one interval timer runs, and once a
\* close() called on an open logger has no flush left in flight, no timer
\* runs at all: the one its open period started has been stopped.
C38_OneTimerStoppedByClose ==
    /\ intervals <= 1
    /\ (logClose.st # "idle" /\ logClose.wasOpen
           /\ ~InFlight(logSave) /\ logOverlap = NoOverlap) => intervals = 0

\* The error of the step at which the open() followed failed, if one did:
\* the resolver gave no connection, createLogGroup or createLogStream
\* answered with an error other than "already exists", or the
\* describeLogStreams called for the token answered with an error.
FailedStep(o) ==
    IF o.st \notin {"idle", "resolve"} /\ logConnection = NullConnection THEN ResolveError
    ELSE IF o.groupErr \notin {NoClientError, AlreadyExists} THEN o.groupErr
    ELSE IF o.streamErr \notin {NoClientError, AlreadyExists} THEN o.streamErr
    ELSE IF o.described = "failed" THEN TransportError
    ELSE NoClientError

\* C39 (as claimed): an open() one of whose steps failed has given that
\* error to its callback and raised nothing, has started no timer, and the
\* logger is not open.
C39_OpenFailureReported ==
    FailedStep(logOpen) # NoClientError =>
        /\ logOpen.st = "failed"
        /\ logOpen.err = FailedStep(logOpen)
        /\ ~logOpen.startedTimer
        /\ ~LoggerIsOpen

\* C40 (as claimed): a save() that has nothing left to wait for (it returned
\* at once, or the last remote call it made has answered) has called the
\* completion callback it was given exactly once.
C40_SaveCallsBack ==
    (logSave.st # "idle" /\ ~InFlight(logSave)) => Len(logSave.callbacks) = 1
====
